---- MODULE Spec2Model ----
(***************************************************************************)
(* Model of the two nodes of the repository:                               *)
(*   - PointCloudStitcher (rosbag_stitching.py): filters every incoming    *)
(*     batch against the LIO-SAM reference map, appends the survivors to   *)
(*     the global cloud and voxel-downsamples the result;                  *)
(*   - TraversabilityListener (traversability_listener.py): rasterizes a   *)
(*     traversability point cloud into four quadrant grids.                *)
(*                                                                         *)
(* Numbers.  Coordinates, colours and traversability values are exact      *)
(* rationals <<n, d>> (d > 0, lowest terms); the inputs are drawn from     *)
(* small integer lattices, which float32 and float64 represent exactly;    *)
(* the rounding of the means is not modelled.                              *)
(* Stitcher lengths are counted in quarter metres, so that 0.5 m is 2.     *)
(* Distances are compared through their squares (d < t  <=>  d*d < t*t     *)
(* for d, t >= 0).                                                         *)
(***************************************************************************)
EXTENDS Integers, Sequences, FiniteSets, TLC

(***************************************************************************)
(* Bounds of the model.                                                    *)
(***************************************************************************)
MaxCoord == 3
MaxCalls == 3
MaxGridCoord == 2
MaxTrav == 2
MaxScale == 2
MaxClouds == 1

(***************************************************************************)
(* Exact rational arithmetic.                                              *)
(***************************************************************************)
Abs(n) == IF n < 0 THEN -n ELSE n

RECURSIVE Gcd(_, _)
Gcd(a, b) == IF b = 0 THEN a ELSE Gcd(b, a % b)

Rat(n, d) ==
    LET g == Gcd(Abs(n), d) IN <<n \div g, d \div g>>

RInt(k) == <<k, 1>>
RAdd(a, b) == Rat(a[1] * b[2] + b[1] * a[2], a[2] * b[2])
RSub(a, b) == Rat(a[1] * b[2] - b[1] * a[2], a[2] * b[2])
RMul(a, b) == Rat(a[1] * b[1], a[2] * b[2])
RDivInt(a, k) == Rat(a[1], a[2] * k)
RLess(a, b) == a[1] * b[2] < b[1] * a[2]
RLeq(a, b) == a[1] * b[2] <= b[1] * a[2]
RFloor(a) == a[1] \div a[2]
RDiv(a, b) == IF b[1] < 0 THEN Rat(-(a[1] * b[2]), a[2] * (-b[1]))
             ELSE Rat(a[1] * b[2], a[2] * b[1])

Range(s) == {s[i] : i \in DOMAIN s}

(***************************************************************************)
(* numpy values.  None, a 1-d array (what np.array([]) is: shape (0,)) or  *)
(* a 2-d array of rows.                                                    *)
(***************************************************************************)
None == [ndim |-> 0, rows |-> <<>>]
Array1d == [ndim |-> 1, rows |-> <<>>]
Array2d(rows) == [ndim |-> 2, rows |-> rows]

(***************************************************************************)
(* PointCloud2 messages: a sequence of points, each six integer fields     *)
(* x, y, z, r, g, b, or a point with a NaN field.                          *)
(***************************************************************************)
MsgPoint(x, c) == [nan |-> FALSE, v |-> <<x, 0, 0, c, 0, 0>>]
NanPoint == [nan |-> TRUE, v |-> <<0, 0, 0, 0, 0, 0>>]

\* The messages delivered: at most two points on the x axis, in non-decreasing
\* order of x (the handlers treat the points of a message alike), after the
\* points with a NaN field.  Reference maps carry colour 0, batches colour 1.
PointsOf(c) == {MsgPoint(x, c) : x \in 0..MaxCoord} \cup {NanPoint}
MessagesOf(c) ==
    {<<>>} \cup {<<p>> : p \in PointsOf(c)}
           \cup {pq \in PointsOf(c) \X PointsOf(c) :
                    pq[1].nan \/ (~pq[2].nan /\ pq[1].v[1] <= pq[2].v[1])}
MapMessages == MessagesOf(0)
BatchMessages == MessagesOf(1)

\* pointcloud2_to_array: read_points(skip_nans=True) drops the points with a
\* NaN field; np.array of the list is 2-d, or of shape (0,) when it is empty.
RowOf(p) == [i \in 1..6 |-> RInt(p.v[i])]
pointcloud2_to_array(cloud_msg) ==
    LET points_list == SelectSeq(cloud_msg, LAMBDA p : ~p.nan)
    IN  IF Len(points_list) = 0
        THEN Array1d
        ELSE Array2d([i \in 1..Len(points_list) |-> RowOf(points_list[i])])

(***************************************************************************)
(* PointCloudStitcher                                                      *)
(***************************************************************************)
voxel_size == 2
distance_threshold == 2

\* cKDTree(data[:, :3]): the index holds the x, y, z columns only.
NoTree == [built |-> FALSE, data |-> {}]
cKDTree(rows) ==
    [built |-> TRUE, data |-> {<<r[1], r[2], r[3]>> : r \in Range(rows)}]

Sq(a) == RMul(a, a)
Dist2(p, q) ==
    RAdd(RAdd(Sq(RSub(p[1], q[1])), Sq(RSub(p[2], q[2]))), Sq(RSub(p[3], q[3])))

\* tree.query(p): the distance to the nearest indexed point (here its square).
query(tree, p) ==
    LET ds == {Dist2(p, q) : q \in tree.data}
    IN  CHOOSE d \in ds : \A e \in ds : RLeq(d, e)

\* distances < self.distance_threshold
WithinThresholdInclusive(d2) ==
    RLeq(d2, RInt(distance_threshold * distance_threshold))
WithinThreshold(d2) == RLess(d2, RInt(distance_threshold * distance_threshold))

\* new_pointcloud[distances < self.distance_threshold]
FilterRows(tree, rows) ==
    SelectSeq(rows, LAMBDA p : WithinThreshold(query(tree, p)))

\* pcd.voxel_down_sample(voxel_size) of open3d: with
\* voxel_min_bound = pcd.get_min_bound() - voxel_size / 2, the point p falls in
\* the voxel floor((p - voxel_min_bound) / voxel_size), taken per axis; every
\* occupied voxel yields the mean of its points and of their colours.  The grid
\* is anchored at the cloud given, not at a fixed origin.
MinBound(rows, i) ==
    LET vs == {r[i] : r \in Range(rows)}
    IN  CHOOSE m \in vs : \A e \in vs : RLeq(m, e)

VoxelIndex(rows, p) ==
    [i \in 1..3 |->
        RFloor(RDivInt(RSub(p[i], RSub(MinBound(rows, i), Rat(voxel_size, 2))),
                       voxel_size))]

RECURSIVE SumRows(_, _, _)
SumRows(rows, idx, i) ==
    IF idx = {} THEN RInt(0)
    ELSE LET k == CHOOSE j \in idx : TRUE
         IN  RAdd(rows[k][i], SumRows(rows, idx \ {k}, i))

VoxelMean(rows, key) ==
    LET idx == {j \in DOMAIN rows : VoxelIndex(rows, rows[j]) = key}
    IN  [i \in 1..6 |-> RDivInt(SumRows(rows, idx, i), Cardinality(idx))]

KeyLess(a, b) ==
    \/ a[1] < b[1]
    \/ a[1] = b[1] /\ a[2] < b[2]
    \/ a[1] = b[1] /\ a[2] = b[2] /\ a[3] < b[3]

\* The order of the output rows is the library's hash order; the model lists
\* the voxels in lexicographic order of their index.
RECURSIVE SortKeys(_)
SortKeys(keys) ==
    IF keys = {} THEN <<>>
    ELSE LET k == CHOOSE a \in keys : \A b \in keys \ {a} : KeyLess(a, b)
         IN  <<k>> \o SortKeys(keys \ {k})

voxel_downsample(rows) ==
    LET keys == SortKeys({VoxelIndex(rows, p) : p \in Range(rows)})
    IN  [n \in 1..Len(keys) |-> VoxelMean(rows, keys[n])]

\* update_global_pointcloud, lines 38-45: stack the survivors under the global
\* cloud (or start it) and downsample the result.
merge_global(global, filtered_pointcloud) ==
    LET combined == IF global.ndim = 0 THEN filtered_pointcloud
                    ELSE global.rows \o filtered_pointcloud
    IN  Array2d(voxel_downsample(combined))

\* update_global_pointcloud: the new value of self.global_pointcloud.
update_global_pointcloud(global, tree, rows) ==
    merge_global(global, FilterRows(tree, rows))

VARIABLES
    global_pointcloud,   \* self.global_pointcloud
    liosam_map,          \* self.liosam_map
    liosam_tree,         \* self.liosam_tree
    stitched_pub,        \* the clouds published on /stitched_pointcloud
    local_pointcloud,    \* pointcloud_callback: local_pointcloud
    filtered_pointcloud, \* update_global_pointcloud: filtered_pointcloud
    last,                \* the last callback that ended and how it ended
    nCalls,              \* messages delivered so far
    mapPc,               \* where the /lio_sam/mapping/map_global thread is
    fusePc,              \* where the /segmented_pointcloud thread is
    ordTree,             \* two stitchers with one reference index ...
    ordA,                \* ... and two batches A and B,
    ordB,
    cloudAB,             \* global cloud of the stitcher fed A then B
    cloudBA,             \* global cloud of the stitcher fed B then A
    ordStep,
    points_list,         \* TraversabilityListener.points_list
    scale_value,         \* TraversabilityListener.scale_value
    maps,                \* build_traversability_map: map_q1 .. map_q4
    buildPc,             \* where build_traversability_map is
    travs_result,        \* how the last build_traversability_map ended
    problem,             \* the exception optimize_quadrants caught, if any
    nClouds              \* clouds delivered on /trav_map so far

stitchVars ==
    <<global_pointcloud, liosam_map, liosam_tree, stitched_pub,
      local_pointcloud, filtered_pointcloud, last, nCalls>>
threadVars == <<mapPc, fusePc>>
orderVars == <<ordTree, ordA, ordB, cloudAB, cloudBA, ordStep>>

gridVars ==
    <<points_list, scale_value, maps, buildPc, travs_result, problem, nClouds>>

vars == <<stitchVars, threadVars, orderVars, gridVars>>

Ended(op, outcome) == [op |-> op, outcome |-> outcome]

StitchInit ==
    /\ global_pointcloud = None
    /\ liosam_map = None
    /\ liosam_tree = NoTree
    /\ stitched_pub = <<>>
    /\ local_pointcloud = None
    /\ filtered_pointcloud = <<>>
    /\ last = Ended("__init__", "ok")
    /\ nCalls = 0
    /\ mapPc = "idle"
    /\ fusePc = "idle"

GridIdle ==
    /\ points_list = <<>>
    /\ scale_value = 1
    /\ maps = <<>>
    /\ buildPc = "off"
    /\ travs_result = "none"
    /\ problem = "none"
    /\ nClouds = 0

OrderIdle ==
    /\ ordTree = NoTree
    /\ ordA = <<>>
    /\ ordB = <<>>
    /\ cloudAB = None
    /\ cloudBA = None
    /\ ordStep = "off"

\* if self.liosam_tree is None
TreeMissingInverted(tree) == tree.built
TreeMissing(tree) == ~tree.built

\* distances, _ = self.liosam_tree.query(...) on None
NoQuery(tree) == ~tree.built

(***************************************************************************)
(* The callbacks, each run to completion.                                  *)
(***************************************************************************)
\* liosam_map_callback: line 21 stores the converted message, line 22 slices
\* it (IndexError on the 1-d array of an empty message) and builds the index.
liosam_map_callback(map_msg) ==
    /\ nCalls < MaxCalls
    /\ nCalls' = nCalls + 1
    /\ liosam_map' = pointcloud2_to_array(map_msg)
    /\ IF liosam_map'.ndim = 1
       THEN /\ last' = Ended("liosam_map_callback", "IndexError")
            /\ UNCHANGED liosam_tree
       ELSE /\ liosam_tree' = cKDTree(liosam_map'.rows)
            /\ last' = Ended("liosam_map_callback", "ok")
    /\ UNCHANGED <<global_pointcloud, stitched_pub, local_pointcloud,
                   filtered_pointcloud>>
    /\ UNCHANGED <<threadVars, orderVars, gridVars>>

\* pointcloud_callback with update_global_pointcloud and
\* publish_stitched_pointcloud.
pointcloud_callback(pointcloud_msg) ==
    /\ nCalls < MaxCalls
    /\ nCalls' = nCalls + 1
    /\ UNCHANGED <<liosam_map, liosam_tree>>
    /\ UNCHANGED <<threadVars, orderVars, gridVars>>
    /\ IF TreeMissing(liosam_tree)
       THEN /\ last' = Ended("pointcloud_callback", "skipped")
            /\ UNCHANGED <<global_pointcloud, stitched_pub, local_pointcloud,
                           filtered_pointcloud>>
       ELSE /\ local_pointcloud' = pointcloud2_to_array(pointcloud_msg)
            /\ IF NoQuery(liosam_tree)
               THEN /\ last' = Ended("pointcloud_callback", "AttributeError")
                    /\ UNCHANGED <<global_pointcloud, stitched_pub,
                                   filtered_pointcloud>>
               ELSE IF local_pointcloud'.ndim = 1
               THEN \* new_pointcloud[:, :3] on an array of shape (0,)
                    /\ last' = Ended("pointcloud_callback", "IndexError")
                    /\ UNCHANGED <<global_pointcloud, stitched_pub,
                                   filtered_pointcloud>>
               ELSE /\ filtered_pointcloud' =
                           FilterRows(liosam_tree, local_pointcloud'.rows)
                    /\ global_pointcloud' =
                           update_global_pointcloud(global_pointcloud, liosam_tree,
                                                    local_pointcloud'.rows)
                    /\ stitched_pub' = Append(stitched_pub, global_pointcloud')
                    /\ last' = Ended("pointcloud_callback", "published")

Init == StitchInit /\ OrderIdle /\ GridIdle

Next ==
    \/ \E m \in MapMessages : liosam_map_callback(m)
    \/ \E m \in BatchMessages : pointcloud_callback(m)

Spec == Init /\ [][Next]_vars

(***************************************************************************)
(* The callbacks as rospy runs them: one thread per subscribed topic, no   *)
(* lock in the node, so the two callbacks interleave line by line.         *)
(***************************************************************************)
MapL21(map_msg) ==
    /\ mapPc = "idle"
    /\ nCalls < MaxCalls
    /\ nCalls' = nCalls + 1
    /\ liosam_map' = pointcloud2_to_array(map_msg)
    /\ mapPc' = "l22"
    /\ UNCHANGED <<global_pointcloud, liosam_tree, stitched_pub, local_pointcloud,
                   filtered_pointcloud, last, fusePc, orderVars, gridVars>>

MapL22 ==
    /\ mapPc = "l22"
    /\ mapPc' = "idle"
    /\ IF liosam_map.ndim = 1
       THEN /\ last' = Ended("liosam_map_callback", "IndexError")
            /\ UNCHANGED liosam_tree
       ELSE /\ liosam_tree' = cKDTree(liosam_map.rows)
            /\ last' = Ended("liosam_map_callback", "ok")
    /\ UNCHANGED <<global_pointcloud, liosam_map, stitched_pub, local_pointcloud,
                   filtered_pointcloud, nCalls, fusePc, orderVars, gridVars>>

FuseL25(pointcloud_msg) ==
    /\ fusePc = "idle"
    /\ nCalls < MaxCalls
    /\ nCalls' = nCalls + 1
    /\ IF TreeMissing(liosam_tree)
       THEN /\ last' = Ended("pointcloud_callback", "skipped")
            /\ UNCHANGED <<local_pointcloud, fusePc>>
       ELSE /\ local_pointcloud' = pointcloud2_to_array(pointcloud_msg)
            /\ fusePc' = "l35"
            /\ UNCHANGED last
    /\ UNCHANGED <<global_pointcloud, liosam_map, liosam_tree, stitched_pub,
                   filtered_pointcloud, mapPc, orderVars, gridVars>>

FuseL35 ==
    /\ fusePc = "l35"
    /\ IF NoQuery(liosam_tree)
       THEN /\ last' = Ended("pointcloud_callback", "AttributeError")
            /\ fusePc' = "idle"
            /\ UNCHANGED filtered_pointcloud
       ELSE IF local_pointcloud.ndim = 1
       THEN /\ last' = Ended("pointcloud_callback", "IndexError")
            /\ fusePc' = "idle"
            /\ UNCHANGED filtered_pointcloud
       ELSE /\ filtered_pointcloud' = FilterRows(liosam_tree, local_pointcloud.rows)
            /\ fusePc' = "l38"
            /\ UNCHANGED last
    /\ UNCHANGED <<global_pointcloud, liosam_map, liosam_tree, stitched_pub,
                   local_pointcloud, nCalls, mapPc, orderVars, gridVars>>

FuseL38 ==
    /\ fusePc = "l38"
    /\ global_pointcloud' = merge_global(global_pointcloud, filtered_pointcloud)
    /\ fusePc' = "l31"
    /\ UNCHANGED <<liosam_map, liosam_tree, stitched_pub, local_pointcloud,
                   filtered_pointcloud, last, nCalls, mapPc, orderVars, gridVars>>

FuseL31 ==
    /\ fusePc = "l31"
    /\ stitched_pub' = Append(stitched_pub, global_pointcloud)
    /\ last' = Ended("pointcloud_callback", "published")
    /\ fusePc' = "idle"
    /\ UNCHANGED <<global_pointcloud, liosam_map, liosam_tree, local_pointcloud,
                   filtered_pointcloud, nCalls, mapPc, orderVars, gridVars>>

NextThreads ==
    \/ \E m \in MapMessages : MapL21(m)
    \/ MapL22
    \/ \E m \in BatchMessages : FuseL25(m)
    \/ FuseL35
    \/ FuseL38
    \/ FuseL31

SpecThreads == Init /\ [][NextThreads]_vars

(***************************************************************************)
(* Two stitchers that share one reference index and one starting cloud     *)
(* (the result of fusing a first batch) and are fed the batches A and B in *)
(* opposite orders.                                                        *)
(***************************************************************************)
ValidMessages == {m \in BatchMessages : \A i \in DOMAIN m : ~m[i].nan}

\* pointcloud_callback run to completion: the new self.global_pointcloud.
fuse(global, tree, pointcloud_msg) ==
    LET local == pointcloud2_to_array(pointcloud_msg)
    IN  IF TreeMissing(tree) \/ local.ndim = 1
        THEN global
        ELSE update_global_pointcloud(global, tree, local.rows)

OrderInit ==
    /\ ordTree = NoTree
    /\ ordA = <<>>
    /\ ordB = <<>>
    /\ cloudAB = None
    /\ cloudBA = None
    /\ ordStep = "reference"

OrderReference(map_msg) ==
    /\ ordStep = "reference"
    /\ pointcloud2_to_array(map_msg).ndim = 2
    /\ ordTree' = cKDTree(pointcloud2_to_array(map_msg).rows)
    /\ ordStep' = "start"
    /\ UNCHANGED <<ordA, ordB, cloudAB, cloudBA, stitchVars, threadVars, gridVars>>

OrderStart(first_msg) ==
    /\ ordStep = "start"
    /\ cloudAB' = fuse(cloudAB, ordTree, first_msg)
    /\ cloudBA' = fuse(cloudBA, ordTree, first_msg)
    /\ ordStep' = "first"
    /\ UNCHANGED <<ordTree, ordA, ordB, stitchVars, threadVars, gridVars>>

OrderFirst(a, b) ==
    /\ ordStep = "first"
    /\ ordA' = a
    /\ ordB' = b
    /\ cloudAB' = fuse(cloudAB, ordTree, a)
    /\ cloudBA' = fuse(cloudBA, ordTree, b)
    /\ ordStep' = "second"
    /\ UNCHANGED <<ordTree, stitchVars, threadVars, gridVars>>

OrderSecond ==
    /\ ordStep = "second"
    /\ cloudAB' = fuse(cloudAB, ordTree, ordB)
    /\ cloudBA' = fuse(cloudBA, ordTree, ordA)
    /\ ordStep' = "done"
    /\ UNCHANGED <<ordTree, ordA, ordB, stitchVars, threadVars, gridVars>>

InitOrder == StitchInit /\ OrderInit /\ GridIdle

NextOrder ==
    \/ \E m \in MapMessages : OrderReference(m)
    \/ \E m \in ValidMessages : OrderStart(m)
    \/ \E a \in ValidMessages, b \in ValidMessages : OrderFirst(a, b)
    \/ OrderSecond

SpecOrder == InitOrder /\ [][NextOrder]_vars

(***************************************************************************)
(* Properties of the stitcher.                                             *)
(***************************************************************************)
Threshold2 == RInt(distance_threshold * distance_threshold)
Position(p) == <<p[1], p[2], p[3]>>
NearSomeReference(p) ==
    \E q \in liosam_tree.data : RLess(Dist2(p, q), Threshold2)
AtThreshold(p) ==
    /\ \E q \in liosam_tree.data : Dist2(p, q) = Threshold2
    /\ \A q \in liosam_tree.data : RLeq(Threshold2, Dist2(p, q))
JustFused == last = Ended("pointcloud_callback", "published")

\* C1: while no reference index has been set (liosam_tree is None) nothing has
\* been published and the global cloud is absent, and every batch delivered in
\* that state is skipped: the callback returns at its guard without raising,
\* publishes nothing and leaves the global cloud absent and the fuser Unready.
UnreadyFuseRejected ==
    /\ [](~liosam_tree.built => global_pointcloud = None /\ stitched_pub = <<>>)
    /\ [][(~liosam_tree.built /\ nCalls' # nCalls
              /\ last'.op = "pointcloud_callback")
            => /\ last'.outcome = "skipped"
               /\ global_pointcloud' = None
               /\ stitched_pub' = <<>>
               /\ ~liosam_tree'.built]_vars

\* C1 witness: a batch was skipped while Unready, after a reference message
\* without points had failed to set the reference.
UnreadyFuseWitness ==
    /\ last = Ended("pointcloud_callback", "skipped")
    /\ liosam_map = Array1d
    /\ ~liosam_tree.built
    /\ nCalls = 3

\* C2: right after a fuse, the survivors are exactly the batch points, in batch
\* order, whose Euclidean distance in x, y, z to some reference point is
\* strictly below distance_threshold; a point whose nearest reference point is
\* at exactly distance_threshold is not among them.
StrictThresholdFilter ==
    JustFused =>
        /\ filtered_pointcloud =
               SelectSeq(local_pointcloud.rows, NearSomeReference)
        /\ \A p \in Range(local_pointcloud.rows) :
               AtThreshold(p) => p \notin Range(filtered_pointcloud)

\* C2 witness: a fused batch with one point exactly at the threshold (dropped)
\* and one point closer than the threshold but off the reference (kept), the
\* reference having two points and another colour than the batch.
StrictThresholdWitness ==
    /\ JustFused
    /\ Cardinality(liosam_tree.data) = 2
    /\ \E p \in Range(local_pointcloud.rows) :
           AtThreshold(p) /\ p \notin Range(filtered_pointcloud)
    /\ \E p \in Range(local_pointcloud.rows) :
           /\ p \in Range(filtered_pointcloud)
           /\ Position(p) \notin liosam_tree.data
           /\ \A r \in Range(liosam_map.rows) : r[4] # p[4]

\* C7: a batch without points delivered while Ready is a no-op that completes
\* without raising.
EmptyBatchIsNoOp ==
    (last.op = "pointcloud_callback" /\ liosam_tree.built
        /\ local_pointcloud.ndim = 1)
      => last.outcome \notin {"IndexError", "AttributeError"}

\* C8: after a reference message without points has failed on a Ready fuser,
\* the stored reference points are still the ones the index was built from.
EmptyReferenceKeepsReference ==
    (last = Ended("liosam_map_callback", "IndexError") /\ liosam_tree.built)
        => liosam_map.ndim = 2 /\ liosam_tree = cKDTree(liosam_map.rows)

\* C9: when the survivors of A and of B are disjoint in space beyond the voxel
\* resolution (every survivor of A is at least voxel_size away from every
\* survivor of B along some axis, so no voxel grid puts them in one voxel),
\* fusing A then B and fusing B then A from the same global cloud give the
\* same set of points.
Apart(p, q) ==
    \E i \in 1..3 : RLeq(RInt(voxel_size), RSub(p[i], q[i]))
                    \/ RLeq(RInt(voxel_size), RSub(q[i], p[i]))
Survivors(msg) == Range(FilterRows(ordTree, pointcloud2_to_array(msg).rows))
DisjointBatches ==
    /\ ordA # <<>>
    /\ ordB # <<>>
    /\ \A p \in Survivors(ordA), q \in Survivors(ordB) : Apart(p, q)
FuseOrderInvariance ==
    (ordStep = "done" /\ DisjointBatches)
        => Range(cloudAB.rows) = Range(cloudBA.rows)

\* C10: a reference update and a fuse are never in progress together.
MutualExclusion == ~(mapPc # "idle" /\ fusePc # "idle")

(***************************************************************************)
(* TraversabilityListener                                                  *)
(*                                                                         *)
(* A point of /trav_map is <<x, y, z, traversability>>; x and y are        *)
(* counted in half metres, so that coordinates of magnitude below 1 m      *)
(* occur, and int(k / 2) of a non-negative k is k \div 2.                  *)
(***************************************************************************)
TravPoints ==
    {<<x, y, 0, t>> : x \in -MaxGridCoord..MaxGridCoord,
                      y \in -MaxGridCoord..MaxGridCoord, t \in 0..MaxTrav}
PointLess(p, q) ==
    \/ p[1] < q[1]
    \/ p[1] = q[1] /\ p[2] < q[2]
    \/ p[1] = q[1] /\ p[2] = q[2] /\ p[4] <= q[4]
\* The clouds delivered: at most two points, listed in lexicographic order.
TravClouds ==
    {<<>>} \cup {<<p>> : p \in TravPoints}
           \cup {pq \in TravPoints \X TravPoints : PointLess(pq[1], pq[2])}

MinOf(S) == CHOOSE m \in S : \A e \in S : m <= e
MaxOf(S) == CHOOSE m \in S : \A e \in S : e <= m

\* extract_trav_value
extract_trav_value(point) == point[4]

IntOf(k) == k \div 2
IntAbsPlus1(k) == (Abs(k) + 2) \div 2
IntAbs(k) == Abs(k) \div 2

\* initialize_empty_quadrants: the shape <<rows, columns>> np.full is given;
\* the four maps of a call have the same shape.
initialize_empty_quadrants(min_x, max_x, min_y, max_y, scale) ==
    IF min_y > 0 /\ max_y > 0 /\ min_x > 0 /\ max_x > 0
    THEN <<scale * IntOf(max_y) + 1, scale * IntOf(max_x) + 1>>
    ELSE IF min_y > 0 /\ max_y > 0 /\ max_x <= 0
    THEN <<scale * IntOf(max_y) + 1, scale * IntAbsPlus1(min_x)>>
    ELSE IF max_y <= 0 /\ min_x > 0 /\ max_x > 0
    THEN <<scale * IntAbsPlus1(min_y), scale * IntOf(max_x) + 1>>
    ELSE IF min_y > 0 /\ max_y > 0 /\ min_x <= 0 /\ max_x > 0
    THEN <<scale * IntOf(max_y) + 1, scale * IntOf(max_x - min_x) + 1>>
    ELSE IF min_y <= 0 /\ max_y > 0 /\ min_x > 0 /\ max_x > 0
    THEN <<scale * IntOf(max_y - min_y) + 1, scale * IntOf(max_x) + 1>>
    ELSE IF max_y > 0 /\ max_x > 0
    THEN <<scale * IntOf(max_y - min_y) + 1, scale * IntOf(max_x - min_x) + 1>>
    ELSE IF max_y <= 0 /\ max_x > 0
    THEN <<scale * IntAbsPlus1(min_y), scale * IntOf(max_x - min_x) + 1>>
    ELSE IF max_y <= 0 /\ max_x <= 0
    THEN <<scale * IntAbsPlus1(min_y), scale * IntAbsPlus1(min_x)>>
    ELSE \* max_y > 0 and max_x <= 0
         <<scale * IntOf(max_y - min_y) + 1, scale * IntAbs(min_x)>>

\* A cell value: a float64 that is a number or NaN.
Number(q) == [nan |-> FALSE, val |-> q]
NaN == [nan |-> TRUE, val |-> RInt(0)]

\* np.full((rows, columns), initial_value) with initial_value 0.0
Full(shape) ==
    [h |-> shape[1], w |-> shape[2],
     cells |-> [rc \in (0..shape[1] - 1) \X (0..shape[2] - 1) |-> Number(RInt(0))]]

\* kdtree.query_ball_point((box_min + box_max) / 2, norm(box_max - box_min) / 2)
\* for the cell index (x, y): box_min is (x * x_multiplier / scale,
\* y * y_multiplier / scale) and box_max is box_min + 1, so the ball has the
\* centre box_min + 0.5 and the radius sqrt(2) / 2, boundary included.
\* In units of 1 / (2 * scale) m the squared radius is 2 * scale * scale.
query_ball_point(points, scale, x, y, x_multiplier, y_multiplier) ==
    {i \in DOMAIN points :
        LET dx == points[i][1] * scale - (2 * x * x_multiplier + scale)
            dy == points[i][2] * scale - (2 * y * y_multiplier + scale)
        IN  dx * dx + dy * dy <= 2 * scale * scale}

RECURSIVE SumTrav(_, _)
SumTrav(points, idx) ==
    IF idx = {} THEN 0
    ELSE LET k == CHOOSE j \in idx : TRUE
         IN  extract_trav_value(points[k]) + SumTrav(points, idx \ {k})

\* (avg_trav - min_trav) / (max_trav - min_trav) of a numpy float64 by a Python
\* float: 0.0 / 0.0 is NaN (with a RuntimeWarning), no exception.
normalized_trav(points, idx) ==
    LET trav == {extract_trav_value(points[i]) : i \in DOMAIN points}
        min_trav == MinOf(trav)
        max_trav == MaxOf(trav)
        avg_trav == Rat(SumTrav(points, idx), Cardinality(idx))
    IN  IF max_trav = min_trav
        THEN NaN
        ELSE Number(RDiv(RSub(avg_trav, RInt(min_trav)), RInt(max_trav - min_trav)))

\* process_quadrant from the k-th element of np.ndenumerate(map_q) on: the
\* element index (x, y) runs over the rows x and, within a row, the columns y;
\* the value is stored at map_q[y, x], which raises IndexError when y is no
\* row or x no column of the map.
RECURSIVE process_quadrant(_, _, _, _, _, _)
process_quadrant(map_q, points, scale, x_multiplier, y_multiplier, k) ==
    IF k >= map_q.h * map_q.w
    THEN [map |-> map_q, raised |-> FALSE]
    ELSE LET x == k \div map_q.w
             y == k % map_q.w
             indices == query_ball_point(points, scale, x, y,
                                         x_multiplier, y_multiplier)
         IN  IF indices = {}
             THEN process_quadrant(map_q, points, scale,
                                   x_multiplier, y_multiplier, k + 1)
             ELSE IF y < map_q.h /\ x < map_q.w
             THEN process_quadrant(
                      [map_q EXCEPT !.cells[<<y, x>>] =
                                        normalized_trav(points, indices)],
                      points, scale, x_multiplier, y_multiplier, k + 1)
             ELSE [map |-> map_q, raised |-> TRUE]

\* The sign multipliers of process_quadrant for map_q1 .. map_q4.
Multipliers == <<(<<1, 1>>), (<<-1, 1>>), (<<-1, -1>>), (<<1, -1>>)>>

\* optimize_quadrants: the quadrants in turn, inside one try block; the first
\* exception ends the processing and is printed.
RECURSIVE optimize_quadrants(_, _, _, _)
optimize_quadrants(ms, points, scale, q) ==
    IF q > 4
    THEN [maps |-> ms, problem |-> "none"]
    ELSE LET r == process_quadrant(ms[q], points, scale,
                                   Multipliers[q][1], Multipliers[q][2], 0)
         IN  IF r.raised
             THEN [maps |-> [ms EXCEPT ![q] = r.map], problem |-> "IndexError"]
             ELSE optimize_quadrants([ms EXCEPT ![q] = r.map], points, scale, q + 1)

GridInit ==
    /\ points_list = <<>>
    /\ scale_value \in 1..MaxScale
    /\ maps = <<>>
    /\ buildPc = "idle"
    /\ travs_result = "none"
    /\ problem = "none"
    /\ nClouds = 0

\* callback_classes
callback_classes(point_cloud) ==
    /\ buildPc = "idle"
    /\ nClouds < MaxClouds
    /\ nClouds' = nClouds + 1
    /\ points_list' = point_cloud
    /\ UNCHANGED <<scale_value, maps, buildPc, travs_result, problem>>
    /\ UNCHANGED <<stitchVars, threadVars, orderVars>>

\* build_traversability_map, lines 94-114: the bounding box, the empty maps and
\* the normalized values for the plot (a ZeroDivisionError of Python floats
\* when all traversability values are equal).
BuildStart ==
    /\ buildPc = "idle"
    /\ nClouds > 0
    /\ travs_result = "none"
    /\ problem' = "none"
    /\ IF Len(points_list) = 0
       THEN /\ travs_result' = "no valid points"
            /\ UNCHANGED <<maps, buildPc>>
       ELSE LET x_coords == {p[1] : p \in Range(points_list)}
                y_coords == {p[2] : p \in Range(points_list)}
                trav == {extract_trav_value(p) : p \in Range(points_list)}
                shape == initialize_empty_quadrants(
                             MinOf(x_coords), MaxOf(x_coords),
                             MinOf(y_coords), MaxOf(y_coords), scale_value)
            IN  /\ maps' = [q \in 1..4 |-> Full(shape)]
                /\ IF MaxOf(trav) = MinOf(trav)
                   THEN travs_result' = "ZeroDivisionError" /\ UNCHANGED buildPc
                   ELSE buildPc' = "plot" /\ UNCHANGED travs_result
    /\ UNCHANGED <<points_list, scale_value, nClouds>>
    /\ UNCHANGED <<stitchVars, threadVars, orderVars>>

\* Lines 116-127 hand the points to matplotlib, which is outside the node: the
\* calls return, or one of them raises.
PlotReturns ==
    /\ buildPc = "plot"
    /\ buildPc' = "optimize"
    /\ UNCHANGED <<points_list, scale_value, maps, travs_result, problem, nClouds>>
    /\ UNCHANGED <<stitchVars, threadVars, orderVars>>

PlotRaises ==
    /\ buildPc = "plot"
    /\ buildPc' = "idle"
    /\ travs_result' = "plot error"
    /\ UNCHANGED <<points_list, scale_value, maps, problem, nClouds>>
    /\ UNCHANGED <<stitchVars, threadVars, orderVars>>

\* build_traversability_map, lines 130-132.
Optimize ==
    /\ buildPc = "optimize"
    /\ LET r == optimize_quadrants(maps, points_list, scale_value, 1)
       IN  maps' = r.maps /\ problem' = r.problem
    /\ travs_result' = "returned"
    /\ buildPc' = "idle"
    /\ UNCHANGED <<points_list, scale_value, nClouds>>
    /\ UNCHANGED <<stitchVars, threadVars, orderVars>>

InitGrid == StitchInit /\ OrderIdle /\ GridInit

NextGrid ==
    \/ \E c \in TravClouds : callback_classes(c)
    \/ BuildStart
    \/ PlotReturns
    \/ PlotRaises
    \/ Optimize

SpecGrid == InitGrid /\ [][NextGrid]_vars

(***************************************************************************)
(* Properties of the grid builder.                                         *)
(***************************************************************************)
Zero == Number(RInt(0))
One == Number(RInt(1))
Built == travs_result = "returned"

\* The input points within the half diagonal of the centre of the cell
\* (row, col) of quadrant q, the cell being the square of side 1 / scale_value
\* placed with the quadrant's sign multipliers: in units of
\* 1 / (2 * scale_value) m the centre is at the multiplier times 2 * index + 1,
\* the squared half diagonal is 2.
InCell(q, row, col) ==
    {i \in DOMAIN points_list :
        LET dx == points_list[i][1] * scale_value - Multipliers[q][1] * (2 * col + 1)
            dy == points_list[i][2] * scale_value - Multipliers[q][2] * (2 * row + 1)
        IN  dx * dx + dy * dy <= 2}
MeanOf(idx) == Number(Rat(SumTrav(points_list, idx), Cardinality(idx)))

\* C3: after a build, every cell of every quadrant holds the mean
\* traversability of the input points within the cell's half diagonal of the
\* cell's centre, and the default 0.0 when there is none; for the points
\* (0, 0, 0.0) and (1, 1, 1.0) at resolution 1, the cell of Q1 that contains
\* (0, 0) is 0.0, the cell that contains (1, 1) is 1.0 and the others are 0.0.
CellsHoldMeans ==
    Built =>
        /\ \A q \in 1..4 : \A rc \in DOMAIN maps[q].cells :
               maps[q].cells[rc] =
                   IF InCell(q, rc[1], rc[2]) = {} THEN Zero
                   ELSE MeanOf(InCell(q, rc[1], rc[2]))
        /\ (points_list = <<(<<0, 0, 0, 0>>), (<<2, 2, 0, 1>>)>> /\ scale_value = 1)
               => /\ maps[1].h = 2 /\ maps[1].w = 2
                  /\ maps[1].cells[<<0, 0>>] = Zero
                  /\ maps[1].cells[<<1, 1>>] = One
                  /\ maps[1].cells[<<0, 1>>] = Zero
                  /\ maps[1].cells[<<1, 0>>] = Zero

\* What the build does on the points (0, 0, 0.0) and (1, 1, 1.0) at
\* resolution 1.
ScenarioGrid ==
    /\ Built
    /\ points_list = <<(<<0, 0, 0, 0>>), (<<2, 2, 0, 1>>)>>
    /\ scale_value = 1
    /\ maps[1].cells[<<0, 0>>] = Number(Rat(1, 2))
    /\ maps[1].cells[<<1, 1>>] = One
    /\ maps[1].cells[<<0, 1>>] = One
    /\ maps[1].cells[<<1, 0>>] = One

\* C4: normalization never raises, and after a build every cell is a number
\* of [0, 1].
NormalizationSafe ==
    /\ travs_result # "ZeroDivisionError"
    /\ Built =>
           \A q \in 1..4 : \A rc \in DOMAIN maps[q].cells :
               /\ ~maps[q].cells[rc].nan
               /\ RLeq(RInt(0), maps[q].cells[rc].val)
               /\ RLeq(maps[q].cells[rc].val, RInt(1))

\* C5: every input point maps to a cell of its quadrant's grid (row
\* floor(|y| * resolution), column floor(|x| * resolution)), and the
\* rasterization addresses no cell out of the grid.
PointsInGrid ==
    Built =>
        /\ problem # "IndexError"
        /\ \A p \in Range(points_list) :
               /\ (Abs(p[2]) * scale_value) \div 2 < maps[1].h
               /\ (Abs(p[1]) * scale_value) \div 2 < maps[1].w

\* C6: the four grids of initialize_empty_quadrants have at least one row and
\* one column.
GridsNotEmpty ==
    maps # <<>> => \A q \in 1..4 : maps[q].h >= 1 /\ maps[q].w >= 1

====
